---- MODULE Spec2Model ----
(***************************************************************************)
(* Medicine reminder: the reminder jobs of scheduler.py and app.py over    *)
(* the patients collection, the period classifiers, the disease matcher    *)
(* of recommender.py and the /recommend request of app.py.                 *)
(*                                                                         *)
(* Text is a sequence of one-character strings, so that lowercasing,       *)
(* trimming, substring search and the '@' test are computed, not assumed.  *)
(***************************************************************************)
EXTENDS Integers, Sequences, FiniteSets, TLC

VARIABLES
    patients,    \* the patients collection: a sequence of documents, index = _id
    today,       \* the calendar day date.today() returns
    jobs,        \* the reminder runs: one record of locals per job slot
    delivered,   \* history: reminders delivered today, per document and period
    writeLost,   \* history: a reminder was delivered today and its marker write failed
    overlap,     \* history: today a run started while another run was in progress
    clsText,     \* classifier check: the timing value handed to the classifiers
    clsPeriod,   \* classifier check: the period
    clsSched,    \* classifier check: answer of scheduler.py patient_matches_period
    clsApp,      \* classifier check: answer of app.py matches_period
    recommender, \* app.py recommender: the loaded Recommender, or None
    query,       \* matcher check: the disease_query handed to recommend
    result,      \* matcher check: <<>> or the one recommendation returned
    serving,     \* app.run() has been reached: requests are accepted
    req,         \* the /recommend request in progress and its response
    outbox,      \* history: the number of recommendation emails sent
    users,       \* the users collection: a sequence of documents
    session,     \* the Flask session of one browser: <<>> or <<username>>
    http         \* the last account request of that browser and its response

vars == <<patients, today, jobs, delivered, writeLost, overlap,
          clsText, clsPeriod, clsSched, clsApp,
          recommender, query, result, serving, req, outbox,
          users, session, http>>

jobVars == <<patients, today, jobs, delivered, writeLost, overlap>>
clsVars == <<clsText, clsPeriod, clsSched, clsApp>>

recVars == <<recommender, query, result>>
webVars == <<serving, req, outbox>>
sessVars == <<users, session, http>>

\* what the reminder runs leave alone
notJobVars == <<clsVars, recVars, webVars, sessVars>>

----------------------------------------------------------------------------
(* Bounds *)

MaxPatients == 2     \* documents in the collection
MaxDay == 2          \* calendar days observed
MaxTextLen == 3      \* length of the generated timing texts
MaxCatalog == 2      \* rows of the treatment table
MaxUsers == 2        \* documents in the users collection

----------------------------------------------------------------------------
(* Text *)

Uppers == <<"A", "B", "C", "D", "E", "F", "G", "H", "I", "J", "K", "L", "M",
            "N", "O", "P", "Q", "R", "S", "T", "U", "V", "W", "X", "Y", "Z">>
Lowers == <<"a", "b", "c", "d", "e", "f", "g", "h", "i", "j", "k", "l", "m",
            "n", "o", "p", "q", "r", "s", "t", "u", "v", "w", "x", "y", "z">>

\* str.lower() on one character
LowerChar(c) ==
    IF \E i \in 1..26 : Uppers[i] = c
    THEN Lowers[CHOOSE i \in 1..26 : Uppers[i] = c]
    ELSE c

\* str.lower()
Lower(t) == [i \in 1..Len(t) |-> LowerChar(t[i])]

\* `k in t` on strings, and re.search of a literal k in t
Contains(t, k) ==
    \E i \in 0..(Len(t) - Len(k)) : SubSeq(t, i + 1, i + Len(k)) = k

K_morning == <<"m", "o", "r", "n", "i", "n", "g">>
K_morn == <<"m", "o", "r", "n">>
K_am == <<"a", "m">>
K_breakfast == <<"b", "r", "e", "a", "k", "f", "a", "s", "t">>
K_afternoon == <<"a", "f", "t", "e", "r", "n", "o", "o", "n">>
K_noon == <<"n", "o", "o", "n">>
K_midday == <<"m", "i", "d", "d", "a", "y">>
K_pm == <<"p", "m">>
K_lunch == <<"l", "u", "n", "c", "h">>
K_night == <<"n", "i", "g", "h", "t">>
K_evening == <<"e", "v", "e", "n", "i", "n", "g">>
K_bedtime == <<"b", "e", "d", "t", "i", "m", "e">>
K_dinner == <<"d", "i", "n", "n", "e", "r">>

T_8am_tablet == <<"8", "a", "m", " ", "t", "a", "b", "l", "e", "t">>
T_after_dinner == <<"a", "f", "t", "e", "r", " ", "d", "i", "n", "n", "e", "r">>
T_2pm == <<"2", "p", "m">>
T_Morning == <<"M", "o", "r", "n", "i", "n", "g">>
T_NA == <<"N", "/", "A">>
T_not_an_email == <<"n", "o", "t", "-", "a", "n", "-", "e", "m", "a", "i", "l">>
T_valid_email == <<"a", "@", "b", ".", "c">>

----------------------------------------------------------------------------
(* Values of a document field: a string, None, a non-string such as a      *)
(* number, or the key is absent.                                            *)

Str(t) == [kind |-> "str", text |-> t]
NoneV == [kind |-> "none", text |-> <<>>]
NumV == [kind |-> "num", text |-> <<>>]
AbsentV == [kind |-> "absent", text |-> <<>>]

\* Python truthiness of a field value (a number here is non-zero)
Truthy(v) == v.kind = "num" \/ (v.kind = "str" /\ v.text # <<>>)

\* dict.get(key): None for an absent key
Get(v) == IF v.kind = "absent" THEN NoneV ELSE v

\* dict.get(key, default)
GetOr(v, d) == IF v.kind = "absent" THEN d ELSE v

\* a or b
Or(a, b) == IF Truthy(a) THEN a ELSE b

Periods == {"morning", "afternoon", "night"}

----------------------------------------------------------------------------
(* The period classifiers *)

\* scheduler.py: patterns
SchedPatterns(period) ==
    CASE period = "morning" -> {K_morning, K_morn, K_am, K_breakfast}
      [] period = "afternoon" -> {K_afternoon, K_noon, K_midday, K_pm, K_lunch}
      [] period = "night" -> {K_night, K_evening, K_bedtime, K_dinner}

\* app.py: patterns
AppPatterns(period) ==
    CASE period = "morning" -> {K_morning, K_am, K_breakfast}
      [] period = "afternoon" -> {K_afternoon, K_noon, K_lunch}
      [] period = "night" -> {K_night, K_pm, K_evening, K_dinner, K_bedtime}

\* a search for any single character of the keywords, as a character class
\* in place of the alternation would do
SearchAnyLetter(keywords, t) ==
    \E k \in keywords : \E i \in 1..Len(k) : Contains(t, <<k[i]>>)

\* re.search of an alternation of literals
Search(keywords, t) == \E k \in keywords : Contains(t, k)

\* scheduler.py patient_matches_period: "match", "nomatch", or "raise" when
\* .lower() is called on a value that is not a string
patient_matches_period(v, period) ==
    IF ~Truthy(v) THEN "nomatch"
    ELSE IF v.kind # "str" THEN "raise"
    ELSE IF Search(SchedPatterns(period), Lower(v.text)) THEN "match"
    ELSE "nomatch"

\* app.py matches_period
matches_period(v, period) ==
    IF ~Truthy(v) THEN "nomatch"
    ELSE IF v.kind # "str" THEN "raise"
    ELSE IF Search(AppPatterns(period), Lower(v.text)) THEN "match"
    ELSE "nomatch"

----------------------------------------------------------------------------
(* The patients collection *)

NoMarkers == [q \in Periods |-> 0]

\* a document as /recommend or an older version of the application stored it;
\* last_sent[q] = 0 stands for an absent last_sent_<q> field, d > 0 for day d
Patient(ttt, timing, timings, email) ==
    [time_to_take |-> ttt, timing |-> timing, timings |-> timings,
     email |-> email, disease |-> AbsentV, medicine |-> AbsentV,
     dosage |-> AbsentV, last_sent |-> NoMarkers]

\* a document that leaves out the timing of the recommendation
StoredDocNoTiming(email, rec) ==
    [Patient(AbsentV, AbsentV, AbsentV, email)
        EXCEPT !.disease = Str(rec.disease), !.medicine = Str(rec.medicine),
               !.dosage = Str(rec.dosage)]

\* the document /recommend inserts: the email of the request and
\* rec.get("disease"), rec.get("medicine"), rec.get("dosage"),
\* rec.get("time_to_take"), and no marker
StoredDoc(email, rec) ==
    [Patient(Str(rec.time_to_take), AbsentV, AbsentV, email)
        EXCEPT !.disease = Str(rec.disease), !.medicine = Str(rec.medicine),
               !.dosage = Str(rec.dosage)]

\* a valid address; an address without '@'; no email key
PatientPool ==
    { Patient(Str(T_8am_tablet), AbsentV, AbsentV, Str(T_valid_email)),
      Patient(Str(T_after_dinner), AbsentV, AbsentV, Str(T_not_an_email)),
      Patient(Str(T_Morning), AbsentV, AbsentV, AbsentV) }

\* the documents of overlapping runs
OverlapPool ==
    { Patient(Str(T_8am_tablet), AbsentV, AbsentV, Str(T_valid_email)),
      Patient(Str(T_2pm), AbsentV, AbsentV, Str(T_valid_email)) }

StoresOf(pool) == UNION { [1..n -> pool] : n \in 0..MaxPatients }

\* str(value)
PyStr(v) ==
    CASE v.kind = "str" -> v.text
      [] v.kind = "none" -> <<"N", "o", "n", "e">>
      [] OTHER -> <<"8">>

----------------------------------------------------------------------------
(* The reminder runs *)

JobIds == {1, 2}
Impls == {"sched", "app"}     \* scheduler.py send_batch_for_period, app.py run_reminder_job

\* the locals of a run; smtp_calls and marks are history: the SMTP sessions it
\* opened and the markers it wrote
IdleJob ==
    [pc |-> "idle", impl |-> "sched", period |-> "morning", today_str |-> 0,
     snap |-> <<>>, i |-> 0, sent_count |-> 0, fail_count |-> 0,
     smtp_calls |-> 0, marks |-> 0, err |-> "none"]

Running(j) == jobs[j].pc \in {"loop", "mark"}

\* a history counter: 0, 1, or 2 for two and more
Bump(n) == IF n < 2 THEN n + 1 ELSE 2

\* a run that logs the exception and goes on with the next document
AbortContinues(J, why) == [J EXCEPT !.pc = "loop", !.i = @ + 1, !.err = why]

\* the run leaves its loop with an exception: its locals are gone and no
\* summary is logged
Abort(J, why) == [IdleJob EXCEPT !.pc = "aborted", !.err = why]

\* `continue`, or the end of the loop body
NextPatient(J) == [J EXCEPT !.pc = "loop", !.i = @ + 1]

\* scheduler.py: the timing text the run classifies
timing_field_lc(p) ==
    LET timing_field ==
            Or(Or(Or(Get(p.time_to_take), Get(p.timing)), Get(p.timings)), Str(<<>>))
    IN  IF timing_field.kind = "str" THEN Str(Lower(timing_field.text)) ELSE Str(<<>>)

\* scheduler.py: `not email or "@" not in str(email)`
InvalidEmail(p) ==
    LET email == GetOr(p.email, Str(T_NA))
    IN  ~Truthy(email) \/ ~Contains(PyStr(email), <<"@">>)

\* a marker check that never finds the marker
AlreadySentNever(p, period, today_str) == FALSE

\* a marker check that is content with a marker of any day
AlreadySentAnyDay(p, period, today_str) == p.last_sent[period] # 0

\* `p.get(meta_field) == today_str` with meta_field = f"last_sent_{period}"
AlreadySent(p, period, today_str) == p.last_sent[period] = today_str

\* a marker write that sets the markers of all three periods
SetMarkerAllPeriods(store, id, period, today_str) ==
    [store EXCEPT ![id].last_sent = [q \in Periods |-> today_str]]

\* {"$set": {meta_field: today_str}} on the document with this _id
SetMarker(store, id, period, today_str) ==
    [store EXCEPT ![id].last_sent[period] = today_str]

\* The run reads date.today() and the collection. In scheduler.py the cursor
\* is read when the loop starts; a collection of this size arrives in its
\* first batch. The read raises when the store cannot be reached.
StartJob(j, impl, period) ==
    /\ ~Running(j)
    /\ \E up \in BOOLEAN :
         jobs' = [jobs EXCEPT ![j] =
                    IF up
                    THEN [IdleJob EXCEPT !.pc = "loop", !.impl = impl,
                          !.period = period, !.today_str = today,
                          !.snap = patients, !.i = 1]
                    ELSE Abort(IdleJob, "store_read")]
    /\ overlap' = (overlap \/ \E k \in JobIds \ {j} : Running(k))
    /\ UNCHANGED <<patients, today, delivered, writeLost>>
    /\ UNCHANGED notJobVars

\* scheduler.py send_batch_for_period: one iteration of the loop up to and
\* including send_email, which catches every error of the transport
send_batch_for_period(j) ==
    LET J == jobs[j]
        p == J.snap[J.i]
    IN  /\ J.pc = "loop" /\ J.impl = "sched" /\ J.i <= Len(J.snap)
        /\ IF patient_matches_period(timing_field_lc(p), J.period) # "match"
              \/ AlreadySent(p, J.period, J.today_str)
              \/ InvalidEmail(p)
           THEN /\ jobs' = [jobs EXCEPT ![j] = NextPatient(J)]
                /\ UNCHANGED delivered
           ELSE \E ok \in BOOLEAN :
                  IF ok
                  THEN /\ jobs' = [jobs EXCEPT ![j] =
                                     [J EXCEPT !.pc = "mark", !.sent_count = @ + 1,
                                               !.smtp_calls = @ + 1]]
                       /\ delivered' = [delivered EXCEPT ![J.i][J.period] = Bump(@)]
                  ELSE /\ jobs' = [jobs EXCEPT ![j] =
                                     [NextPatient(J) EXCEPT !.fail_count = @ + 1,
                                                            !.smtp_calls = @ + 1]]
                       /\ UNCHANGED delivered
        /\ UNCHANGED <<patients, today, writeLost, overlap>>
        /\ UNCHANGED notJobVars

\* app.py run_reminder_job: one iteration of the loop up to and including
\* send_reminder_email. The transport decides about an address it is handed;
\* a value that is no string never leaves the client.
run_reminder_job(j) ==
    LET J == jobs[j]
        p == J.snap[J.i]
        m == matches_period(GetOr(p.time_to_take, Str(<<>>)), J.period)
    IN  /\ J.pc = "loop" /\ J.impl = "app" /\ J.i <= Len(J.snap)
        /\ IF m = "raise"
           THEN /\ jobs' = [jobs EXCEPT ![j] = Abort(J, "timing_type")]
                /\ UNCHANGED delivered
           ELSE IF m = "nomatch" \/ AlreadySent(p, J.period, J.today_str)
           THEN /\ jobs' = [jobs EXCEPT ![j] = NextPatient(J)]
                /\ UNCHANGED delivered
           ELSE IF p.email.kind = "absent"
           \* patient["email"] raises KeyError in the try block and again in
           \* the print of the except block
           THEN /\ jobs' = [jobs EXCEPT ![j] = Abort(J, "email_key")]
                /\ UNCHANGED delivered
           ELSE \E ok \in (IF p.email.kind = "str" THEN BOOLEAN ELSE {FALSE}) :
                  IF ok
                  THEN /\ jobs' = [jobs EXCEPT ![j] =
                                     [J EXCEPT !.pc = "mark", !.sent_count = @ + 1,
                                               !.smtp_calls = @ + 1]]
                       /\ delivered' = [delivered EXCEPT ![J.i][J.period] = Bump(@)]
                  ELSE /\ jobs' = [jobs EXCEPT ![j] =
                                     [NextPatient(J) EXCEPT !.smtp_calls = @ + 1]]
                       /\ UNCHANGED delivered
        /\ UNCHANGED <<patients, today, writeLost, overlap>>
        /\ UNCHANGED notJobVars

\* update_one({"_id": p["_id"]}, {"$set": {meta_field: today_str}}) of either
\* run; it raises when the store cannot be reached
update_one(j) ==
    LET J == jobs[j]
    IN  /\ J.pc = "mark"
        /\ \E up \in BOOLEAN :
             IF up
             THEN /\ patients' = SetMarker(patients, J.i, J.period, J.today_str)
                  /\ jobs' = [jobs EXCEPT ![j] = [NextPatient(J) EXCEPT !.marks = @ + 1]]
                  /\ UNCHANGED writeLost
             ELSE /\ jobs' = [jobs EXCEPT ![j] = Abort(J, "store_write")]
                  /\ writeLost' = [writeLost EXCEPT ![J.i][J.period] = TRUE]
                  /\ UNCHANGED patients
        /\ UNCHANGED <<today, delivered, overlap>>
        /\ UNCHANGED notJobVars

\* the counts the summary line of the run carries: scheduler.py logs
\* "Sent: {sent_count}, Failed: {fail_count}", app.py prints
\* "Sent: {sent_count}"
ReportedCounts(J) == IF J.impl = "sched" THEN {"sent", "failed"} ELSE {"sent"}

\* the loop is exhausted: the summary line with the period and the counts is
\* logged
Summary(j) ==
    LET J == jobs[j]
    IN  /\ J.pc = "loop" /\ J.i > Len(J.snap)
        /\ jobs' = [jobs EXCEPT ![j] =
                      [J EXCEPT !.pc = "done", !.snap = <<>>, !.i = 0, !.today_str = 0]]
        /\ UNCHANGED <<patients, today, delivered, writeLost, overlap>>
        /\ UNCHANGED notJobVars

NoHistory ==
    /\ delivered = [r \in 1..Len(patients) |-> [q \in Periods |-> 0]]
    /\ writeLost = [r \in 1..Len(patients) |-> [q \in Periods |-> FALSE]]
    /\ overlap = FALSE

\* midnight passes while no run is in progress; the history variables are
\* per day
AdvanceDay ==
    /\ today < MaxDay
    /\ \A j \in JobIds : ~Running(j)
    /\ today' = today + 1
    /\ jobs' = [j \in JobIds |-> IdleJob]
    /\ patients' = patients
    /\ delivered' = [r \in 1..Len(patients) |-> [q \in Periods |-> 0]]
    /\ writeLost' = [r \in 1..Len(patients) |-> [q \in Periods |-> FALSE]]
    /\ overlap' = FALSE
    /\ UNCHANGED notJobVars

ClsIdle ==
    /\ clsText = NoneV /\ clsPeriod = "morning"
    /\ clsSched = "none" /\ clsApp = "none"

\* recommender = None
NoRecommender == [loaded |-> FALSE, df |-> <<>>, idf |-> <<>>, vectors |-> <<>>]

\* no request in progress
IdleReq == [pc |-> "idle", email |-> NoneV, disease |-> <<>>, rec |-> <<>>,
            response |-> "none", err |-> "none"]

\* no account request yet
NoToken == [email |-> <<>>, signed |-> FALSE, fresh |-> FALSE]

NoHttp == [route |-> "none", username |-> <<>>, email |-> <<>>,
           password |-> <<>>, token |-> NoToken, status |-> "none"]

\* no user is registered and the browser holds an empty session
NoAccounts == users = <<>> /\ session = <<>> /\ http = NoHttp

\* the matcher and the web application are not part of the run
AppIdle ==
    /\ recommender = NoRecommender /\ query = <<>> /\ result = <<>>
    /\ serving = FALSE /\ req = IdleReq /\ outbox = 0
    /\ NoAccounts

Init ==
    /\ patients \in StoresOf(PatientPool)
    /\ today = 1
    /\ jobs = [j \in JobIds |-> IdleJob]
    /\ NoHistory
    /\ ClsIdle
    /\ AppIdle

\* a run starts when no run is in progress
StartAlone(impl, period) ==
    /\ \A k \in JobIds : ~Running(k)
    /\ StartJob(1, impl, period)

\* runs one after another
Next ==
    \/ \E impl \in Impls, period \in Periods : StartAlone(impl, period)
    \/ send_batch_for_period(1)
    \/ run_reminder_job(1)
    \/ update_one(1)
    \/ Summary(1)
    \/ AdvanceDay

Spec == Init /\ [][Next]_vars

InitOverlap ==
    /\ patients \in StoresOf(OverlapPool)
    /\ today = 1
    /\ jobs = [j \in JobIds |-> IdleJob]
    /\ NoHistory
    /\ ClsIdle
    /\ AppIdle

\* the first of two invocations
StartFirst(impl, period) ==
    /\ jobs[1].pc = "idle"
    /\ StartJob(1, impl, period)

\* the second invocation, for the same period, while the first is in progress
StartSecond(impl) ==
    /\ jobs[2].pc = "idle"
    /\ Running(1)
    /\ StartJob(2, impl, jobs[1].period)

\* Two invocations for the same period and day overlap: the scheduled run and
\* a manual run, a run of scheduler.py beside app.py, or the schedulers of
\* two processes.
NextOverlap ==
    \/ \E impl \in Impls, period \in Periods : StartFirst(impl, period)
    \/ \E impl \in Impls : StartSecond(impl)
    \/ \E j \in JobIds : send_batch_for_period(j)
    \/ \E j \in JobIds : run_reminder_job(j)
    \/ \E j \in JobIds : update_one(j)
    \/ \E j \in JobIds : Summary(j)

SpecOverlap == InitOverlap /\ [][NextOverlap]_vars

\* documents of older versions of the application: the timing text in the
\* field timing or timings only, and documents without a usable timing text
\* (a number, an empty text, None, no timing field at all)
LegacyPool ==
    { Patient(AbsentV, Str(T_8am_tablet), AbsentV, Str(T_valid_email)),
      Patient(AbsentV, AbsentV, Str(T_after_dinner), Str(T_valid_email)),
      Patient(NumV, AbsentV, AbsentV, Str(T_valid_email)),
      Patient(Str(<<>>), AbsentV, AbsentV, Str(T_valid_email)),
      Patient(NoneV, AbsentV, AbsentV, Str(T_valid_email)),
      Patient(AbsentV, AbsentV, AbsentV, Str(T_valid_email)) }

InitLegacy ==
    /\ patients \in StoresOf(LegacyPool)
    /\ today = 1
    /\ jobs = [j \in JobIds |-> IdleJob]
    /\ NoHistory
    /\ ClsIdle
    /\ AppIdle

\* runs one after another over a collection of older documents
SpecLegacy == InitLegacy /\ [][Next]_vars

----------------------------------------------------------------------------
(* The disease matcher of recommender.py *)

Digits == {"0", "1", "2", "3", "4", "5", "6", "7", "8", "9"}

\* the characters of the texts used here, in code point order
Ascii ==
    <<" ", ",", "-", ".", "/", "0", "1", "2", "3", "4", "5", "6", "7", "8",
      "9", "@", "A", "B", "C", "D", "E", "F", "G", "H", "I", "J", "K", "L",
      "M", "N", "O", "P", "Q", "R", "S", "T", "U", "V", "W", "X", "Y", "Z",
      "_", "a", "b", "c", "d", "e", "f", "g", "h", "i", "j", "k", "l", "m",
      "n", "o", "p", "q", "r", "s", "t", "u", "v", "w", "x", "y", "z">>

CharCode(c) == CHOOSE i \in 1..Len(Ascii) : Ascii[i] = c

\* str.upper() on one character
UpperChar(c) ==
    IF \E i \in 1..26 : Lowers[i] = c
    THEN Uppers[CHOOSE i \in 1..26 : Lowers[i] = c]
    ELSE c

IsSpace(c) == c \in {" ", "\t", "\n"}

\* str.strip()
RECURSIVE Strip(_)
Strip(t) ==
    IF t = <<>> THEN t
    ELSE IF IsSpace(Head(t)) THEN Strip(Tail(t))
    ELSE IF IsSpace(t[Len(t)]) THEN Strip(SubSeq(t, 1, Len(t) - 1))
    ELSE t

\* a normalisation that forgets to trim
NormalizeNoStrip(t) == Lower(t)

\* the query as recommend normalises it: disease_query.lower().strip()
Normalize(t) == Strip(Lower(t))

\* str.capitalize(): the first character upper, the rest lower
Capitalize(t) ==
    [i \in 1..Len(t) |-> IF i = 1 THEN UpperChar(t[i]) ELSE LowerChar(t[i])]

\* s < t on strings
RECURSIVE StrLess(_, _)
StrLess(s, t) ==
    IF t = <<>> THEN FALSE
    ELSE IF s = <<>> THEN TRUE
    ELSE IF Head(s) # Head(t) THEN CharCode(Head(s)) < CharCode(Head(t))
    ELSE StrLess(Tail(s), Tail(t))

RECURSIVE SumFn(_, _)
SumFn(f, S) ==
    IF S = {} THEN 0
    ELSE LET x == CHOOSE x \in S : TRUE IN f[x] + SumFn(f, S \ {x})

SetMax(S) == CHOOSE x \in S : \A y \in S : y <= x
SetMin(S) == CHOOSE x \in S : \A y \in S : x <= y

T_nan == <<"n", "a", "n">>
T_No_disease == <<"N", "o", " ", "d", "i", "s", "e", "a", "s", "e", " ", "e", "n", "t", "e", "r", "e", "d">>
T_Consult == <<"C", "o", "n", "s", "u", "l", "t", " ", "D", "o", "c", "t", "o", "r", " ", "f", "o", "r", " ", "P", "r", "o", "p", "e", "r", " ", "M", "e", "d", "i", "c", "i", "n", "e">>

\* One cell of the spreadsheet as __init__ cleans it:
\* .astype(str).fillna("").str.lower().str.strip(); an empty cell is NaN and
\* astype(str) has made it "nan" before fillna sees it.
CleanCell(v) == Strip(Lower(IF v.kind = "str" THEN v.text ELSE T_nan))

\* the cleaned table
CleanTable(raw) ==
    [i \in 1..Len(raw) |->
        [disease |-> CleanCell(raw[i].disease),
         medicine |-> CleanCell(raw[i].medicine),
         dosage |-> CleanCell(raw[i].dosage),
         time_to_take |-> CleanCell(raw[i].time_to_take)]]

_format_output(row) ==
    [disease |-> Capitalize(row.disease),
     medicine |-> Capitalize(row.medicine),
     dosage |-> row.dosage,
     time_to_take |-> row.time_to_take]

_fallback(disease_query) ==
    [disease |-> Capitalize(disease_query),
     medicine |-> T_Consult,
     dosage |-> T_NA,
     time_to_take |-> T_NA]

\* a scan that keeps the last row whose disease contains the query
PartialMatchLast(df, q) ==
    IF \E i \in 1..Len(df) : Contains(df[i].disease, q)
    THEN SetMax({i \in 1..Len(df) : Contains(df[i].disease, q)})
    ELSE 0

(* Step 1: the first row whose disease contains the query; 0 when none does *)
PartialMatch(df, q) ==
    IF \E i \in 1..Len(df) : Contains(df[i].disease, q)
    THEN SetMin({i \in 1..Len(df) : Contains(df[i].disease, q)})
    ELSE 0

(* Step 2: TfidfVectorizer(stop_words="english") and cosine_similarity *)

WordChars ==
    Digits \cup {"_"} \cup {Uppers[i] : i \in 1..26} \cup {Lowers[i] : i \in 1..26}

IsWordChar(c) == c \in WordChars

\* the maximal runs of word characters in t, as <<first, last>>
WordRuns(t) ==
    LET first == { i \in 1..Len(t) :
                     IsWordChar(t[i]) /\ (i = 1 \/ ~IsWordChar(t[i - 1])) }
        last == { j \in 1..Len(t) :
                    IsWordChar(t[j]) /\ (j = Len(t) \/ ~IsWordChar(t[j + 1])) }
    IN  { <<i, SetMin({ j \in last : j >= i })>> : i \in first }

T_of == <<"o", "f">>
T_the == <<"t", "h", "e">>
T_and == <<"a", "n", "d">>

\* the words of the English stop word list that the texts used here contain
StopWords == {T_of, T_the, T_and, K_am, <<"a", "f", "t", "e", "r">>}

\* token_pattern (?u)\b\w\w+\b on the lowercased text, stop words removed:
\* the occurrences of tokens
TokenRuns(t) ==
    { r \in WordRuns(t) :
        /\ r[2] > r[1]
        /\ SubSeq(Lower(t), r[1], r[2]) \notin StopWords }

TokenSet(t) == { SubSeq(Lower(t), r[1], r[2]) : r \in TokenRuns(t) }

\* term frequency
Tf(t, tok) == Cardinality({ r \in TokenRuns(t) : SubSeq(Lower(t), r[1], r[2]) = tok })

\* the vocabulary fitted on the disease column
Vocabulary(df) == UNION { TokenSet(df[i].disease) : i \in 1..Len(df) }

\* document frequency
Df(df, tok) == Cardinality({ i \in 1..Len(df) : tok \in TokenSet(df[i].disease) })

\* idf = ln((1 + n) / (1 + df)) + 1, in hundredths
IdfCenti(n, d) ==
    CASE n = d -> 100
      [] n = 2 /\ d = 1 -> 141
      [] n = 3 /\ d = 1 -> 169
      [] n = 3 /\ d = 2 -> 129
      [] n = 4 /\ d = 1 -> 192
      [] n = 4 /\ d = 2 -> 151
      [] n = 4 /\ d = 3 -> 122

\* vectorizer.fit: the idf of every token of the vocabulary
Idf(df) == [tok \in Vocabulary(df) |-> IdfCenti(Len(df), Df(df, tok))]

\* vectorizer.transform: the tf-idf weights of a text; the length of the
\* vector is divided out in the cosine
Transform(idf, t) == [tok \in DOMAIN idf |-> Tf(t, tok) * idf[tok]]

\* self.vectors, one vector per row
Vectors(df) == [i \in 1..Len(df) |-> Transform(Idf(df), df[i].disease)]

Dot(u, v) == SumFn([tok \in DOMAIN u |-> u[tok] * v[tok]], DOMAIN u)

\* the square of the cosine of two vectors, in thousandths; 0 for a zero
\* vector
CosSqMilli(u, v) ==
    IF Dot(u, u) = 0 \/ Dot(v, v) = 0 THEN 0
    ELSE ((((Dot(u, v) * 1000) \div Dot(u, u)) * Dot(u, v)) \div Dot(v, v))

\* cosine_similarity(query_vec, self.vectors)
Similarity(self, q) ==
    [i \in 1..Len(self.df) |-> CosSqMilli(Transform(self.idf, q), self.vectors[i])]

\* an argmax that keeps the last row with the greatest score
ArgMaxLast(sim) ==
    SetMax({ i \in DOMAIN sim : sim[i] = SetMax({ sim[k] : k \in DOMAIN sim }) })

\* similarity.argmax(): the first row with the greatest score
ArgMax(sim) ==
    SetMin({ i \in DOMAIN sim : sim[i] = SetMax({ sim[k] : k \in DOMAIN sim }) })

\* score >= 0.1, on the square of the score in thousandths
ScoreThreshold == 10

(* Step 3: difflib.get_close_matches(query, diseases, n=1, cutoff=0.3) *)

\* the length of the block a[i+1..] = b[j+1..] inside a[..ahi], b[..bhi]
RECURSIVE Run(_, _, _, _, _, _)
Run(a, i, ahi, b, j, bhi) ==
    IF i < ahi /\ j < bhi /\ a[i + 1] = b[j + 1]
    THEN 1 + Run(a, i + 1, ahi, b, j + 1, bhi)
    ELSE 0

\* find_longest_match: the longest block, the earliest in a, then in b;
\* <<alo, blo, 0>> when nothing matches
LongestMatch(a, alo, ahi, b, blo, bhi) ==
    LET runs == [p \in (alo..(ahi - 1)) \X (blo..(bhi - 1)) |->
                    Run(a, p[1], ahi, b, p[2], bhi)]
        k == IF DOMAIN runs = {} THEN 0 ELSE SetMax({ runs[p] : p \in DOMAIN runs })
        i == SetMin({ p[1] : p \in { x \in DOMAIN runs : runs[x] = k } })
        j == SetMin({ p[2] : p \in { x \in DOMAIN runs : runs[x] = k /\ x[1] = i } })
    IN  IF k = 0 THEN <<alo, blo, 0>> ELSE <<i, j, k>>

\* get_matching_blocks: the total size of the matching blocks
RECURSIVE Matches(_, _, _, _, _, _)
Matches(a, alo, ahi, b, blo, bhi) ==
    LET m == LongestMatch(a, alo, ahi, b, blo, bhi)
    IN  IF m[3] = 0 THEN 0
        ELSE m[3]
             + (IF alo < m[1] /\ blo < m[2]
                THEN Matches(a, alo, m[1], b, blo, m[2]) ELSE 0)
             + (IF m[1] + m[3] < ahi /\ m[2] + m[3] < bhi
                THEN Matches(a, m[1] + m[3], ahi, b, m[2] + m[3], bhi) ELSE 0)

\* SequenceMatcher(a=x, b=word).ratio() = 2M / T as the pair <<2M, T>>
Ratio(x, word) == <<2 * Matches(x, 0, Len(x), word, 0, Len(word)), Len(x) + Len(word)>>

\* ratio >= cutoff with cutoff = 0.3 (real_quick_ratio and quick_ratio are
\* upper bounds of ratio)
AboveCutoff(r) == IF r[2] = 0 THEN TRUE ELSE 10 * r[1] >= 3 * r[2]

\* (score, x) < (score', x') as heapq.nlargest orders the candidates
CandLess(rx, x, ry, y) ==
    \/ rx[1] * ry[2] < ry[1] * rx[2]
    \/ rx[1] * ry[2] = ry[1] * rx[2] /\ StrLess(x, y)

\* the first row holding the best close match; 0 when there is none
CloseMatch(df, q) ==
    LET ratio == [i \in 1..Len(df) |-> Ratio(df[i].disease, q)]
        cands == { i \in 1..Len(df) : AboveCutoff(ratio[i]) }
    IN  IF cands = {} THEN 0
        ELSE LET best == CHOOSE i \in cands : \A k \in cands :
                            ~CandLess(ratio[i], df[i].disease, ratio[k], df[k].disease)
             IN  SetMin({ i \in 1..Len(df) : df[i].disease = df[best].disease })

\* Recommender.recommend; self holds the cleaned table and the fitted model
recommend(self, disease_query) ==
    LET q == Normalize(disease_query)
        df == self.df
    IN  IF q = <<>> THEN _fallback(T_No_disease)
        ELSE IF PartialMatch(df, q) # 0
             THEN _format_output(df[PartialMatch(df, q)])
        ELSE IF Similarity(self, q)[ArgMax(Similarity(self, q))] >= ScoreThreshold
             THEN _format_output(df[ArgMax(Similarity(self, q))])
        ELSE IF CloseMatch(df, q) # 0
             THEN _format_output(df[CloseMatch(df, q)])
        ELSE _fallback(q)

IdleStore ==
    /\ patients = <<>>
    /\ today = 1
    /\ jobs = [j \in JobIds |-> IdleJob]
    /\ NoHistory

----------------------------------------------------------------------------
(* The treatment table and the matcher on its own *)

D_Diabetes == <<"D", "i", "a", "b", "e", "t", "e", "s", " ">>
D_Heart_Attack == <<" ", "H", "e", "a", "r", "t", " ", "A", "t", "t", "a", "c", "k">>
D_heart_failure == <<"h", "e", "a", "r", "t", " ", "f", "a", "i", "l", "u", "r", "e">>
D_fever == <<"f", "e", "v", "e", "r">>
M_Metformin == <<"M", "e", "t", "f", "o", "r", "m", "i", "n">>
M_Aspirin == <<"A", "s", "p", "i", "r", "i", "n">>
M_digoxin == <<"d", "i", "g", "o", "x", "i", "n">>
M_paracetamol == <<"p", "a", "r", "a", "c", "e", "t", "a", "m", "o", "l">>
T_500mg == <<"5", "0", "0", "m", "g">>
T_75mg == <<"7", "5", "m", "g">>
T_morning_night == <<"m", "o", "r", "n", "i", "n", "g", ",", " ", "n", "i", "g", "h", "t">>
T_after_lunch == <<"a", "f", "t", "e", "r", " ", "l", "u", "n", "c", "h">>

\* rows of the spreadsheet as read_excel returns them: text as typed, with
\* capitals and stray blanks, and None for an empty cell
RowPool ==
    { [disease |-> Str(D_Diabetes), medicine |-> Str(M_Metformin),
       dosage |-> Str(T_500mg), time_to_take |-> Str(T_morning_night)],
      [disease |-> Str(D_Heart_Attack), medicine |-> Str(M_Aspirin),
       dosage |-> Str(T_75mg), time_to_take |-> Str(T_after_lunch)],
      [disease |-> Str(D_heart_failure), medicine |-> Str(M_digoxin),
       dosage |-> NoneV, time_to_take |-> Str(T_8am_tablet)],
      [disease |-> Str(D_fever), medicine |-> Str(M_paracetamol),
       dosage |-> Str(T_500mg), time_to_take |-> Str(T_after_dinner)] }

\* the spreadsheet: not there, without a disease column, or a table
Files ==
    { [kind |-> "missing", rows |-> <<>>], [kind |-> "nocolumn", rows |-> <<>>] }
        \cup { [kind |-> "table", rows |-> r] :
                 r \in UNION { [1..n -> RowPool] : n \in 0..MaxCatalog } }

\* Recommender(path): read_excel raises without the file, self.df[col] raises
\* without the column, fit_transform raises on an empty vocabulary. In app.py
\* the constructor runs inside try/except and a failure leaves
\* recommender = None.
Recommender(file) ==
    IF file.kind = "table" /\ Vocabulary(CleanTable(file.rows)) # {}
    THEN [loaded |-> TRUE, df |-> CleanTable(file.rows),
          idf |-> Idf(CleanTable(file.rows)),
          vectors |-> Vectors(CleanTable(file.rows))]
    ELSE NoRecommender

\* every substring of t
Substrings(t) ==
    { SubSeq(t, i, j) : i \in 1..(Len(t) + 1), j \in 0..Len(t) }

Q_diabetis == <<"d", "i", "a", "b", "e", "t", "i", "s">>
Q_Heart == <<"H", "e", "a", "r", "t">>
Q_attack_padded == <<" ", "a", "t", "t", "a", "c", "k", " ">>
Q_hart_atack == <<"h", "a", "r", "t", " ", "a", "t", "a", "c", "k">>
Q_flu == <<"f", "l", "u">>
Q_xq == <<"x", "q">>
Q_heart_flu == <<"h", "e", "a", "r", "t", " ", "f", "l", "u">>
Q_blank == <<" ">>
Q_blanks == <<" ", "\t", " ">>

\* the queries: every substring of a disease of the table, misspellings,
\* capitals, padding, blanks and texts that are nowhere near
Queries ==
    UNION { Substrings(CleanCell(r.disease)) : r \in RowPool }
        \cup {Q_diabetis, Q_Heart, Q_attack_padded, Q_hart_atack, Q_flu,
              Q_xq, Q_heart_flu, Q_blank, Q_blanks}

InitMatcher ==
    /\ \E f \in Files :
         /\ Recommender(f).loaded
         /\ recommender = Recommender(f)
    /\ query \in Queries
    /\ result = <<>>
    /\ serving = FALSE /\ req = IdleReq /\ outbox = 0
    /\ NoAccounts
    /\ IdleStore
    /\ ClsIdle

\* one call of recommender.recommend(query)
Recommend ==
    /\ recommender.loaded
    /\ result = <<>>
    /\ result' = <<recommend(recommender, query)>>
    /\ UNCHANGED <<recommender, query, webVars, jobVars, clsVars, sessVars>>

NextMatcher == Recommend

SpecMatcher == InitMatcher /\ [][NextMatcher]_vars

----------------------------------------------------------------------------
(* The web application: start-up and the /recommend handler *)

\* the email and disease fields of the request body
WebEmails == {Str(T_valid_email), Str(T_not_an_email), NoneV}
WebDiseases == {Str(D_Diabetes), Str(Q_diabetis), Str(Q_xq), Str(Q_blank), NoneV, NumV}

\* the application starts with the spreadsheet missing, unusable, empty or
\* holding one row
InitWeb ==
    /\ \E f \in { g \in Files : Len(g.rows) <= 1 } : recommender = Recommender(f)
    /\ query = <<>> /\ result = <<>>
    /\ serving = FALSE /\ req = IdleReq /\ outbox = 0
    /\ NoAccounts
    /\ IdleStore
    /\ ClsIdle

\* main(): start_scheduler() and app.run(); nothing looks at recommender
main ==
    /\ ~serving
    /\ serving' = TRUE
    /\ UNCHANGED <<req, outbox, recVars, jobVars, clsVars, sessVars>>

\* the except branch of the handler: the generic failure response
Failed(why) == [IdleReq EXCEPT !.pc = "done", !.response = "failure", !.err = why]

\* a call that answers with the fallback entry when no table is loaded
RecommenderCallDefaulting(rc, disease) ==
    IF rc.loaded THEN <<recommend(rc, disease)>> ELSE <<_fallback(disease)>>

\* recommender.recommend(disease): <<>> when the call raises, which it does
\* on recommender = None
RecommenderCall(rc, disease) ==
    IF rc.loaded THEN <<recommend(rc, disease)>> ELSE <<>>

\* a request arrives: get_json(force=True) and the fields of the body;
\* .strip() raises on a disease that is not text
Receive(body_ok, email, disease) ==
    /\ serving
    /\ req.pc \in {"idle", "done"}
    /\ Len(patients) < MaxPatients
    /\ req' = IF ~body_ok \/ Or(disease, Str(<<>>)).kind # "str"
              THEN Failed("body")
              ELSE [IdleReq EXCEPT !.pc = "parsed", !.email = email,
                                   !.disease = Strip(Or(disease, Str(<<>>)).text)]
    /\ UNCHANGED <<serving, outbox, recVars, jobVars, clsVars, sessVars>>

ReceiveRequest ==
    \E body_ok \in BOOLEAN, email \in WebEmails, disease \in WebDiseases :
        Receive(body_ok, email, disease)

\* rec = recommender.recommend(disease)
CallRecommender ==
    /\ req.pc = "parsed"
    /\ req' = IF RecommenderCall(recommender, req.disease) = <<>>
              THEN Failed("recommender")
              ELSE [req EXCEPT !.pc = "matched",
                               !.rec = RecommenderCall(recommender, req.disease)]
    /\ UNCHANGED <<serving, outbox, recVars, jobVars, clsVars, sessVars>>

\* patients_col.insert_one({...})
insert_one ==
    /\ req.pc = "matched"
    /\ \E up \in BOOLEAN :
         IF up
         THEN /\ patients' = Append(patients, StoredDoc(req.email, req.rec[1]))
              /\ delivered' = Append(delivered, [q \in Periods |-> 0])
              /\ writeLost' = Append(writeLost, [q \in Periods |-> FALSE])
              /\ req' = [req EXCEPT !.pc = "inserted"]
         ELSE /\ req' = Failed("store")
              /\ UNCHANGED <<patients, delivered, writeLost>>
    /\ UNCHANGED <<today, jobs, overlap, serving, outbox, recVars, clsVars, sessVars>>

\* the recommendation email and the response; the transport refuses a
\* recipient that is not text
SendRecommendation ==
    /\ req.pc = "inserted"
    /\ \E ok \in (IF req.email.kind = "str" THEN BOOLEAN ELSE {FALSE}) :
         IF ok
         THEN /\ outbox' = outbox + 1
              /\ req' = [IdleReq EXCEPT !.pc = "done", !.response = "success",
                                        !.rec = req.rec]
         ELSE /\ req' = Failed("smtp")
              /\ UNCHANGED outbox
    /\ UNCHANGED <<serving, recVars, jobVars, clsVars, sessVars>>

NextWeb ==
    \/ main
    \/ ReceiveRequest
    \/ CallRecommender
    \/ insert_one
    \/ SendRecommendation

SpecWeb == InitWeb /\ [][NextWeb]_vars

\* the application with a table of one row, diabetes, loaded and an empty
\* collection
InitClinic ==
    /\ \E f \in { g \in Files : Len(g.rows) = 1 } :
         /\ f.rows[1].disease = Str(D_Diabetes)
         /\ recommender = Recommender(f)
    /\ recommender.loaded
    /\ query = <<>> /\ result = <<>>
    /\ serving = FALSE /\ req = IdleReq /\ outbox = 0
    /\ NoAccounts
    /\ IdleStore
    /\ ClsIdle

\* a request with a valid address, for a disease of the table or for a text
\* that is nowhere near, arrives while no run is in progress
RequestBetweenRuns ==
    /\ \A k \in JobIds : ~Running(k)
    /\ \E disease \in {Str(D_Diabetes), Str(Q_xq)} :
         Receive(TRUE, Str(T_valid_email), disease)

\* the run of the day starts while no request is in progress
StartBetweenRequests(impl, period) ==
    /\ req.pc \in {"idle", "done"}
    /\ jobs[1].pc = "idle"
    /\ StartAlone(impl, period)

\* Recommendation requests and reminder runs of one deployment, one run a
\* day. A request and a run meet in the collection only, where the insert and
\* the read of the run are one step each, so they are taken one after the
\* other.
NextClinic ==
    \/ main
    \/ RequestBetweenRuns
    \/ CallRecommender
    \/ insert_one
    \/ SendRecommendation
    \/ \E impl \in Impls, period \in Periods : StartBetweenRequests(impl, period)
    \/ send_batch_for_period(1)
    \/ run_reminder_job(1)
    \/ update_one(1)
    \/ Summary(1)
    \/ AdvanceDay

SpecClinic == InitClinic /\ [][NextClinic]_vars

----------------------------------------------------------------------------
(* Accounts and the session: /register, /login, /dashboard, /logout and    *)
(* /reset-password of app.py, as one browser calls them.                   *)

U_al == <<"a", "l">>
U_AL == <<"A", "L">>
U_bo_padded == <<" ", "b", "o">>
U_bo == <<"b", "o">>
U_any == <<".", "*">>
U_zz == <<"z", "z">>
E_a_upper == <<"A", "@", "b", ".", "c">>
E_b == <<"b", "@", "b", ".", "c">>
E_nobody == <<"n", "@", "b", ".", "c">>
P_one == <<"p", "w", "1">>
P_two == <<"p", "w", "2">>

\* generate_password_hash: a salted digest, never the password itself
generate_password_hash(password) == <<"$">> \o password

\* a check that accepts every password
CheckAnyPassword(pwhash, password) == TRUE

\* check_password_hash(pwhash, password)
check_password_hash(pwhash, password) == pwhash = generate_password_hash(password)

\* one character of the pattern against one character of the text, with
\* $options "i"; "." stands for any character
AtomMatch(a, c) == a = "." \/ LowerChar(a) = LowerChar(c)

\* {"$regex": f"^{pattern}$", "$options": "i"}: the pattern is the text the
\* user typed, so "." and "*" in it act as regular expression operators
RECURSIVE FullMatch(_, _)
FullMatch(pattern, t) ==
    IF pattern = <<>> THEN t = <<>>
    ELSE IF Len(pattern) >= 2 /\ pattern[2] = "*"
         THEN \/ FullMatch(SubSeq(pattern, 3, Len(pattern)), t)
              \/ t # <<>> /\ AtomMatch(pattern[1], t[1]) /\ FullMatch(pattern, Tail(t))
    ELSE t # <<>> /\ AtomMatch(pattern[1], t[1]) /\ FullMatch(Tail(pattern), Tail(t))

\* find_one of /login: the first user whose username or email matches; 0 for
\* None
FindLogin(us, pattern) ==
    LET hits == { i \in 1..Len(us) :
                    FullMatch(pattern, us[i].username) \/ FullMatch(pattern, us[i].email) }
    IN  IF hits = {} THEN 0 ELSE SetMin(hits)

\* find_one({"email": email}): 0 for None
FindByEmail(us, email) ==
    LET hits == { i \in 1..Len(us) : us[i].email = email }
    IN  IF hits = {} THEN 0 ELSE SetMin(hits)

\* serializer.loads(token, salt=..., max_age=1800) returns the email of a
\* token that carries the application's signature and is younger than 30
\* minutes, and raises otherwise
TokenLoads(token) == token.signed /\ token.fresh

Tokens ==
    { [email |-> e, signed |-> sg, fresh |-> fr] :
        e \in {Lower(E_a_upper), E_b, E_nobody}, sg \in BOOLEAN, fr \in BOOLEAN }

InitSession ==
    /\ NoAccounts
    /\ recommender = NoRecommender /\ query = <<>> /\ result = <<>>
    /\ serving = FALSE /\ req = IdleReq /\ outbox = 0
    /\ IdleStore
    /\ ClsIdle

Answer(route, username, email, password, token, status) ==
    [route |-> route, username |-> username, email |-> email,
     password |-> password, token |-> token, status |-> status]

\* POST /register
register ==
    /\ serving
    /\ Len(users) < MaxUsers
    /\ \E username0 \in {U_al, U_bo_padded, <<>>}, email0 \in {E_a_upper, E_b},
          password \in {P_one, P_two, <<>>}, up \in BOOLEAN :
         LET username == Strip(username0)
             email == Lower(Strip(email0))
             status ==
                 IF username = <<>> \/ email = <<>> \/ password = <<>> THEN "400"
                 ELSE IF ~up THEN "500"
                 ELSE IF \E i \in 1..Len(users) :
                            users[i].username = username \/ users[i].email = email
                      THEN "400"
                 ELSE "ok"
         IN  /\ users' = IF status = "ok"
                         THEN Append(users,
                                [username |-> username, email |-> email,
                                 password |-> generate_password_hash(password)])
                         ELSE users
             /\ http' = Answer("register", username, email, password, NoToken, status)
    /\ UNCHANGED <<session, webVars, recVars, jobVars, clsVars>>

\* POST /login
login ==
    /\ serving
    /\ \E username0 \in {U_al, U_AL, U_bo, U_any, Lower(E_a_upper), U_zz, <<>>},
          password \in {P_one, P_two, <<>>}, up \in BOOLEAN :
         LET username_or_email == Strip(username0)
             user == FindLogin(users, username_or_email)
             status ==
                 IF username_or_email = <<>> \/ password = <<>> THEN "400"
                 ELSE IF ~up THEN "500"
                 ELSE IF user = 0 THEN "404"
                 ELSE IF ~check_password_hash(users[user].password, password) THEN "401"
                 ELSE "ok"
         IN  /\ session' = IF status = "ok" THEN <<users[user].username>> ELSE session
             /\ http' = Answer("login", username_or_email, <<>>, password, NoToken, status)
    /\ UNCHANGED <<users, webVars, recVars, jobVars, clsVars>>

\* GET /dashboard
dashboard ==
    /\ serving
    /\ http' = Answer("dashboard", <<>>, <<>>, <<>>, NoToken,
                      IF session # <<>> THEN "dashboard" ELSE "redirect_home")
    /\ UNCHANGED <<users, session, webVars, recVars, jobVars, clsVars>>

\* GET /logout
logout ==
    /\ serving
    /\ session' = <<>>
    /\ http' = Answer("logout", <<>>, <<>>, <<>>, NoToken, "redirect_home")
    /\ UNCHANGED <<users, webVars, recVars, jobVars, clsVars>>

\* POST /reset-password; nothing catches what loads or the store raises
reset_password ==
    /\ serving
    /\ \E token \in Tokens, password \in {P_one, P_two}, up \in BOOLEAN :
         LET user == FindByEmail(users, token.email)
             status ==
                 IF ~TokenLoads(token) \/ ~up THEN "500"
                 ELSE IF user = 0 THEN "user_not_found"
                 ELSE "ok"
         IN  /\ users' = IF status = "ok"
                         THEN [users EXCEPT ![user].password =
                                              generate_password_hash(password)]
                         ELSE users
             /\ session' = IF status = "ok" THEN <<users[user].username>> ELSE session
             /\ http' = Answer("reset", <<>>, <<>>, password, token, status)
    /\ UNCHANGED <<webVars, recVars, jobVars, clsVars>>

\* the application has started; then the account requests of one browser in
\* any order
NextSession ==
    \/ main
    \/ register
    \/ login
    \/ dashboard
    \/ logout
    \/ reset_password

SpecSession == InitSession /\ [][NextSession]_vars

----------------------------------------------------------------------------
(* The classifiers on their own: a timing value and a period are chosen, and *)
(* each classifier is applied to them.                                       *)

TextAlphabet == {"a", "m", "p", "A", "M", " "}

\* all texts over the alphabet up to the given length
TextsUpTo(n) == UNION { [1..k -> TextAlphabet] : k \in 0..n }

TimingTexts ==
    TextsUpTo(MaxTextLen)
        \cup {T_8am_tablet, T_after_dinner, T_2pm, T_Morning, T_NA,
              K_morn, K_midday, K_lunch, K_bedtime, K_evening, K_breakfast,
              K_afternoon}

TimingValues == {Str(t) : t \in TimingTexts} \cup {NoneV, NumV}

InitClassify ==
    /\ clsText \in TimingValues
    /\ clsPeriod \in Periods
    /\ clsSched = "none"
    /\ clsApp = "none"
    /\ IdleStore
    /\ AppIdle

ClassifySched ==
    /\ clsSched = "none"
    /\ clsSched' = patient_matches_period(clsText, clsPeriod)
    /\ UNCHANGED <<clsText, clsPeriod, clsApp, jobVars, recVars, webVars, sessVars>>

ClassifyApp ==
    /\ clsApp = "none"
    /\ clsApp' = matches_period(clsText, clsPeriod)
    /\ UNCHANGED <<clsText, clsPeriod, clsSched, jobVars, recVars, webVars, sessVars>>

NextClassify == ClassifySched \/ ClassifyApp

SpecClassify == InitClassify /\ [][NextClassify]_vars

\* the keyword sets as the specification lists them
SpecKeywords(period) ==
    CASE period = "morning" -> {K_morning, K_morn, K_am, K_breakfast}
      [] period = "afternoon" -> {K_afternoon, K_noon, K_midday, K_pm, K_lunch}
      [] period = "night" -> {K_night, K_evening, K_bedtime, K_dinner}

SpecAnswer(t, period) ==
    IF Search(SpecKeywords(period), Lower(t)) THEN "match" ELSE "nomatch"

\* C6 as stated: for every timing text and period, each classifier answers
\* true exactly when the lowercased text contains one of the period's
\* keywords, so both classifiers give the same answer.
C6_ClassifiersFollowKeywords ==
    clsText.kind = "str" =>
        /\ clsSched # "none" => clsSched = SpecAnswer(clsText.text, clsPeriod)
        /\ clsApp # "none" => clsApp = SpecAnswer(clsText.text, clsPeriod)

----------------------------------------------------------------------------
(* Properties of the reminder runs *)

Ids == 1..Len(patients)

\* a run has delivered a reminder to document r for period q and has not yet
\* returned from its marker write
MarkPending(r, q) ==
    \E j \in JobIds : jobs[j].pc = "mark" /\ jobs[j].i = r /\ jobs[j].period = q

\* C1 as stated: over sequential runs on one day, every document has been
\* sent at most one reminder for each period that day.
C1_AtMostOnePerDay ==
    \A r \in Ids, q \in Periods : delivered[r][q] <= 1

\* C1 amended: over sequential runs, a document whose last_sent_<period>
\* marker equals today's date is sent no further reminder for that period
\* that day, and a document is sent a second reminder for a period on one day
\* only after a marker write failed behind a delivered reminder.
C1_MarkedNotSentAgain ==
    /\ [](\A r \in Ids, q \in Periods : delivered[r][q] >= 2 => writeLost[r][q])
    /\ [][\A r \in Ids, q \in Periods :
            patients[r].last_sent[q] = today => delivered'[r][q] <= delivered[r][q]]_vars

\* A second run of the day for the period has passed an already-marked
\* document and reported zero sent.
C1_Witness ==
    \E r \in Ids :
        /\ jobs[1].pc = "done" /\ jobs[1].sent_count = 0
        /\ patients[r].last_sent[jobs[1].period] = today
        /\ delivered[r][jobs[1].period] = 1

\* C2: a run sends a reminder on the strength of its own earlier read of the
\* document: the run that has just sent, and not yet written its marker, read
\* the document without today's marker, whatever the collection holds by now.
\* With two overlapping runs both read before either writes, and the
\* document gets two reminders (C2_Witness).
C2_SendDecidedOnRead ==
    \A j \in JobIds :
        jobs[j].pc = "mark" =>
            jobs[j].snap[jobs[j].i].last_sent[jobs[j].period] # jobs[j].today_str

\* Two overlapping runs for one period have both delivered a reminder to the
\* same document on the same day, with every marker write succeeding.
C2_Witness ==
    \E r \in Ids, q \in Periods :
        /\ delivered[r][q] = 2 /\ ~writeLost[r][q] /\ overlap
        /\ patients[r].last_sent[q] = today
        /\ \A j \in JobIds : jobs[j].pc = "done" /\ jobs[j].period = q

\* C3 as stated: a failed send for one document (here a document with no
\* email key) never takes the run out of its loop.
C3_SendFailureNeverAborts ==
    \A j \in JobIds : jobs[j].err # "email_key"

\* C4 as stated: the marker of a document for a period holds today's date
\* exactly when a run of today has sent that reminder successfully (and has
\* returned from its marker write).
C4_MarkerIffSent ==
    \A r \in Ids, q \in Periods :
        (patients[r].last_sent[q] = today)
            <=> (delivered[r][q] >= 1 /\ ~MarkPending(r, q))

\* C4 amended: the marker holds today's date only if a run of today sent the
\* reminder successfully, and it does hold it after a successful send unless
\* the marker write itself failed; a failed send leaves the marker as it was.
C4_MarkerOnlyIfSent ==
    \A r \in Ids, q \in Periods :
        /\ patients[r].last_sent[q] = today => delivered[r][q] >= 1
        /\ (delivered[r][q] >= 1 /\ ~MarkPending(r, q) /\ ~writeLost[r][q])
               => patients[r].last_sent[q] = today

\* A run of scheduler.py has ended with one reminder sent and one failed:
\* the first document carries today's marker, the second was left unmarked.
C4_Witness ==
    /\ jobs[1].pc = "done" /\ jobs[1].sent_count = 1 /\ jobs[1].fail_count = 1
    /\ Len(patients) = 2
    /\ patients[1].last_sent[jobs[1].period] = today
    /\ patients[2].last_sent[jobs[1].period] = 0
    /\ delivered[2][jobs[1].period] = 0

\* the email of the document is missing or holds no '@'
EmailMissingOrNoAt(p) ==
    \/ p.email.kind \in {"absent", "none"}
    \/ p.email.kind = "str" /\ ~Contains(p.email.text, <<"@">>)

\* C5 as stated: when a run comes to a document whose email is missing or
\* holds no '@', it goes on to the next document: it opens no SMTP session,
\* does not raise, counts nothing as sent and sets no marker.
C5_InvalidEmailSkipped ==
    [][\A j \in JobIds :
          (/\ jobs[j].pc = "loop" /\ jobs[j].i <= Len(jobs[j].snap)
           /\ EmailMissingOrNoAt(jobs[j].snap[jobs[j].i])
           /\ jobs'[j] # jobs[j])
              => jobs'[j] = NextPatient(jobs[j])]_vars

\* the timing text is held by a legacy field only
LegacyOnly(p) ==
    /\ p.time_to_take.kind = "absent"
    /\ p.timing.kind = "str" \/ p.timings.kind = "str"

\* the legacy timing text: timing, then timings
LegacyText(p) == IF p.timing.kind # "absent" THEN p.timing ELSE p.timings

\* C12 as stated: a document that carries its timing text in a legacy field
\* only is classified and reminded by every reminder job: when a run for a
\* period that the text names comes to such a document, unmarked today and
\* with a valid address, it opens an SMTP session for it.
C12_LegacyTimingReminded ==
    [][\A j \in JobIds :
          (/\ jobs[j].pc = "loop" /\ jobs[j].i <= Len(jobs[j].snap)
           /\ LegacyOnly(jobs[j].snap[jobs[j].i])
           /\ patient_matches_period(LegacyText(jobs[j].snap[jobs[j].i]),
                                     jobs[j].period) = "match"
           /\ matches_period(LegacyText(jobs[j].snap[jobs[j].i]),
                             jobs[j].period) = "match"
           /\ ~AlreadySent(jobs[j].snap[jobs[j].i], jobs[j].period, jobs[j].today_str)
           /\ ~EmailMissingOrNoAt(jobs[j].snap[jobs[j].i])
           /\ jobs'[j] # jobs[j])
              => jobs'[j].smtp_calls = jobs[j].smtp_calls + 1]_vars

\* the document has no timing text: every timing field is absent, or
\* time_to_take is empty, None or not a string
NoTimingText(p) ==
    /\ p.timing.kind = "absent" /\ p.timings.kind = "absent"
    /\ \/ p.time_to_take.kind \in {"absent", "none", "num"}
       \/ p.time_to_take.kind = "str" /\ p.time_to_take.text = <<>>

\* C14 as stated: a document without a timing text matches no period: a run
\* that comes to it goes on to the next document, sends nothing, sets no
\* marker and does not fail.
C14_NoTimingNeverMatches ==
    [][\A j \in JobIds :
          (/\ jobs[j].pc = "loop" /\ jobs[j].i <= Len(jobs[j].snap)
           /\ NoTimingText(jobs[j].snap[jobs[j].i])
           /\ jobs'[j] # jobs[j])
              => /\ jobs'[j] = NextPatient(jobs[j])
                 /\ delivered' = delivered
                 /\ patients' = patients]_vars

\* C13: a run for period P changes nothing in the collection except
\* last_sent_P of a document it has emailed successfully: no document is
\* added or deleted, every other document and every other field, the markers
\* of the other two periods included, stay as they are.
C13_RunOnlySetsItsMarker ==
    [][/\ Len(patients') = Len(patients)
       /\ \A r \in 1..Len(patients) :
            \/ patients'[r] = patients[r]
            \/ \E j \in JobIds :
                 /\ jobs[j].pc = "mark"
                 /\ jobs[j].i = r
                 /\ delivered[r][jobs[j].period] >= 1
                 /\ patients'[r].last_sent[jobs[j].period] = jobs[j].today_str
                 /\ \A q \in Periods \ {jobs[j].period} :
                      patients'[r].last_sent[q] = patients[r].last_sent[q]
                 /\ patients'[r].time_to_take = patients[r].time_to_take
                 /\ patients'[r].timing = patients[r].timing
                 /\ patients'[r].timings = patients[r].timings
                 /\ patients'[r].email = patients[r].email]_vars

\* on the second day the first document has been emailed and marked for the
\* morning, the second still carries the marker of the day before
C13_Witness ==
    /\ today = 2
    /\ Len(patients) = 2
    /\ delivered[1]["morning"] = 1
    /\ patients[1].last_sent = [NoMarkers EXCEPT !["morning"] = 2]
    /\ patients[2].last_sent = [NoMarkers EXCEPT !["morning"] = 1]
    /\ patients[1].email = patients[2].email

\* C16 as stated: at the end of every run the job reports counts of sent,
\* skipped and failed records; the sent count is the number of markers
\* written in the run and the failed count the number of failed send attempts.
C16_ReportsSentSkippedFailed ==
    \A j \in JobIds :
        jobs[j].pc = "done" =>
            /\ ReportedCounts(jobs[j]) = {"sent", "skipped", "failed"}
            /\ jobs[j].sent_count = jobs[j].marks
            /\ jobs[j].fail_count = jobs[j].smtp_calls - jobs[j].marks

\* C16, amended: a run that reaches its summary reports the sent count, and
\* in scheduler.py also the failed count; no count of skipped records is
\* kept. The sent count is the number of markers written in the run; the
\* failed count of scheduler.py is the number of failed send attempts, and
\* app.py counts no failures.
C16_ReportsSentAndFailed ==
    \A j \in JobIds :
        jobs[j].pc = "done" =>
            /\ "skipped" \notin ReportedCounts(jobs[j])
            /\ "sent" \in ReportedCounts(jobs[j])
            /\ jobs[j].sent_count = jobs[j].marks
            /\ jobs[j].impl = "sched" =>
                 /\ "failed" \in ReportedCounts(jobs[j])
                 /\ jobs[j].fail_count = jobs[j].smtp_calls - jobs[j].marks
            /\ jobs[j].impl = "app" =>
                 /\ "failed" \notin ReportedCounts(jobs[j])
                 /\ jobs[j].fail_count = 0

\* a run of scheduler.py has ended with one reminder sent and marked and one
\* send failed
C16_Witness ==
    /\ jobs[1].pc = "done"
    /\ jobs[1].impl = "sched"
    /\ jobs[1].sent_count = 1
    /\ jobs[1].marks = 1
    /\ jobs[1].fail_count = 1
    /\ jobs[1].smtp_calls = 2

\* the run's own classifier finds the period in the document's timing text
Eligible(J, p) ==
    IF J.impl = "sched"
    THEN patient_matches_period(timing_field_lc(p), J.period) = "match"
    ELSE matches_period(GetOr(p.time_to_take, Str(<<>>)), J.period) = "match"

\* C18: a marker of an earlier day never suppresses a reminder. A run for
\* period P that comes to an eligible document with a valid address whose
\* last_sent_P holds a day before today attempts a send; the marker write
\* after a successful send puts today's date in its place; and a document
\* marked today whose marker writes all succeeded has received exactly one
\* reminder for the period today.
C18_EarlierMarkerDoesNotSuppress ==
    /\ [][\A j \in JobIds :
            (/\ jobs[j].pc = "loop" /\ jobs[j].i <= Len(jobs[j].snap)
             /\ Eligible(jobs[j], jobs[j].snap[jobs[j].i])
             /\ ~EmailMissingOrNoAt(jobs[j].snap[jobs[j].i])
             /\ jobs[j].snap[jobs[j].i].last_sent[jobs[j].period] > 0
             /\ jobs[j].snap[jobs[j].i].last_sent[jobs[j].period] < jobs[j].today_str
             /\ jobs'[j] # jobs[j])
                => jobs'[j].smtp_calls = jobs[j].smtp_calls + 1]_vars
    /\ [][\A j \in JobIds :
            (jobs[j].pc = "mark" /\ patients' # patients)
                => patients'[jobs[j].i].last_sent[jobs[j].period] = today]_vars
    /\ [](\A r \in 1..Len(patients) : \A q \in Periods :
            (patients[r].last_sent[q] = today /\ ~writeLost[r][q])
                => delivered[r][q] = 1)

\* on the second day a run has sent a reminder to a document that carries the
\* marker of the first day
C18_Witness ==
    /\ jobs[1].pc = "mark"
    /\ jobs[1].today_str = 2
    /\ jobs[1].snap[jobs[1].i].last_sent[jobs[1].period] = 1
    /\ patients[jobs[1].i].last_sent[jobs[1].period] = 1
    /\ delivered[jobs[1].i][jobs[1].period] = 1

\* C9 as stated: an error of the data store never takes a run out of its
\* loop or keeps it from its summary.
C9_StoreErrorCaught ==
    \A j \in JobIds : jobs[j].err \notin {"store_read", "store_write"}


----------------------------------------------------------------------------
(* Properties of the matcher *)

\* the answer is the fallback entry
IsFallback(r) ==
    r.medicine = T_Consult /\ r.dosage = T_NA /\ r.time_to_take = T_NA

\* the rows whose disease contains the text
RowsContaining(df, t) == { e \in 1..Len(df) : Contains(df[e].disease, t) }

\* C7 as stated: for every row E and every query that is an exact substring
\* of E's disease, recommend returns E or an earlier row whose disease also
\* contains the query, and never the fallback entry.
C7_SubstringReturnsEntry ==
    result # <<>> =>
        \A e \in RowsContaining(recommender.df, query) :
            /\ \E k \in 1..e :
                 /\ Contains(recommender.df[k].disease, query)
                 /\ result[1] = _format_output(recommender.df[k])
            /\ ~IsFallback(result[1])

\* C7, amended: for every row E and every query that is an exact substring of
\* E's disease and is not empty once trimmed, recommend returns E or an
\* earlier row whose disease also contains the trimmed query, and never the
\* fallback entry.
C7_TrimmedSubstringReturnsEntry ==
    result # <<>> /\ Strip(query) # <<>> =>
        \A e \in RowsContaining(recommender.df, query) :
            /\ \E k \in 1..e :
                 /\ Contains(recommender.df[k].disease, Strip(query))
                 /\ result[1] = _format_output(recommender.df[k])
            /\ ~IsFallback(result[1])

\* a query found in two different rows has been answered with the earlier one
C7_Witness ==
    /\ result # <<>>
    /\ Strip(query) # <<>>
    /\ Len(recommender.df) = 2
    /\ RowsContaining(recommender.df, query) = {1, 2}
    /\ recommender.df[1] # recommender.df[2]
    /\ result[1] = _format_output(recommender.df[1])

\* the text is the empty string or whitespace only
Blank(t) == \A i \in 1..Len(t) : IsSpace(t[i])

\* C8: a query that is empty or whitespace only is answered with the fallback
\* entry (medicine "Consult Doctor for Proper Medicine", dosage "N/A", timing
\* "N/A") whatever the table contains.
C8_BlankQueryFallback ==
    result # <<>> /\ Blank(query) =>
        result[1] = _fallback(T_No_disease) /\ IsFallback(result[1])

\* a whitespace-only query has been answered on a table one of whose diseases
\* contains a blank
C8_Witness ==
    /\ result # <<>>
    /\ query = Q_blank
    /\ RowsContaining(recommender.df, Q_blank) # {}
    /\ IsFallback(result[1])

\* C11: the stages are applied in order and the first success wins. For a
\* query that is not empty once normalised: when a disease contains it, the
\* first such row is returned; otherwise, when the greatest cosine score is at
\* least 0.10, the first row attaining it; otherwise, when the best fuzzy
\* ratio is at least 0.30, a row with the best ratio; and the fallback entry
\* is returned exactly when all three stages fail.
C11_StagesInOrder ==
    result # <<>> /\ Normalize(query) # <<>> =>
        LET q == Normalize(query)
            df == recommender.df
            rows == 1..Len(df)
            sim == Similarity(recommender, q)
            top == SetMax({ sim[i] : i \in rows })
            contained == \E i \in rows : Contains(df[i].disease, q)
            close == { i \in rows : AboveCutoff(Ratio(df[i].disease, q)) }
        IN  /\ contained =>
                 \E i \in rows :
                    /\ Contains(df[i].disease, q)
                    /\ \A k \in 1..(i - 1) : ~Contains(df[k].disease, q)
                    /\ result[1] = _format_output(df[i])
            /\ ~contained /\ top >= ScoreThreshold =>
                 \E i \in rows :
                    /\ sim[i] = top
                    /\ \A k \in 1..(i - 1) : sim[k] < top
                    /\ result[1] = _format_output(df[i])
            /\ ~contained /\ top < ScoreThreshold /\ close # {} =>
                 \E i \in close :
                    /\ \A k \in rows :
                          Ratio(df[k].disease, q)[1] * Ratio(df[i].disease, q)[2]
                             <= Ratio(df[i].disease, q)[1] * Ratio(df[k].disease, q)[2]
                    /\ result[1] = _format_output(df[i])
            /\ IsFallback(result[1]) <=>
                 (~contained /\ top < ScoreThreshold /\ close = {})

\* no disease contains the query, two different rows share the greatest
\* score, and the first of them has been returned
C11_Witness ==
    /\ result # <<>>
    /\ query = Q_heart_flu
    /\ Len(recommender.df) = 2
    /\ recommender.df[1] # recommender.df[2]
    /\ \A i \in 1..2 : ~Contains(recommender.df[i].disease, query)
    /\ Similarity(recommender, query)[1] = Similarity(recommender, query)[2]
    /\ Similarity(recommender, query)[1] >= ScoreThreshold
    /\ result[1] = _format_output(recommender.df[1])

----------------------------------------------------------------------------
(* Properties of the web application *)

\* C10 as stated: a failure to load the table at start-up is fatal; the
\* application never accepts recommendation requests while the matcher has no
\* loaded table.
C10_LoadFailureFatal == ~(serving /\ ~recommender.loaded)

\* C10, amended: a failure to load the table is not fatal, the application
\* serves with recommender = None; every recommendation request then ends in
\* the failure response, no patient document is written and no recommendation
\* email is sent.
C10_NoCatalogRequestsFail ==
    ~recommender.loaded =>
        /\ req.pc \notin {"matched", "inserted"}
        /\ req.response # "success"
        /\ patients = <<>>
        /\ outbox = 0

\* the application serves without a table and a request has failed at the
\* call of the matcher
C10_Witness ==
    /\ serving
    /\ ~recommender.loaded
    /\ req.pc = "done"
    /\ req.response = "failure"
    /\ req.err = "recommender"

\* C15: a recommendation request calls the matcher, then writes the patient
\* document, then sends the recommendation email. The document carries the
\* disease, medicine, dosage and timing of the returned recommendation; an
\* email is sent only after the document of its request has been written; and
\* the request answers success only when the email was sent, every failure
\* giving the failure response.
C15_MatchWriteMail ==
    [][/\ patients' # patients =>
            /\ req.pc = "matched"
            /\ req.rec = <<recommend(recommender, req.disease)>>
            /\ Len(patients') = Len(patients) + 1
            /\ SubSeq(patients', 1, Len(patients)) = patients
            /\ patients'[Len(patients')].email = req.email
            /\ patients'[Len(patients')].disease = Str(req.rec[1].disease)
            /\ patients'[Len(patients')].medicine = Str(req.rec[1].medicine)
            /\ patients'[Len(patients')].dosage = Str(req.rec[1].dosage)
            /\ patients'[Len(patients')].time_to_take = Str(req.rec[1].time_to_take)
            /\ outbox' = outbox
       /\ outbox' # outbox =>
            /\ req.pc = "inserted"
            /\ patients' = patients
            /\ patients[Len(patients)] = StoredDoc(req.email, req.rec[1])
            /\ req'.response = "success"
       /\ (req'.pc = "done" /\ req.pc # "done") =>
            /\ req'.response \in {"success", "failure"}
            /\ req'.response = "success" <=> outbox' = outbox + 1
            /\ req'.response = "failure" <=> outbox' = outbox]_vars

\* a request for a disease of the table has been answered with success: its
\* document is in the collection and its email has been sent
C15_Witness ==
    /\ req.pc = "done"
    /\ req.response = "success"
    /\ outbox = 1
    /\ Len(patients) = 1
    /\ ~IsFallback(req.rec[1])
    /\ patients[1] = StoredDoc(patients[1].email, req.rec[1])

----------------------------------------------------------------------------
(* Properties of requests and runs together *)

\* the document was created from a fallback recommendation
FromFallback(p) ==
    /\ p.time_to_take = Str(T_NA)
    /\ p.medicine = Str(T_Consult)

\* C17: a document created from a fallback recommendation (timing "N/A",
\* medicine "Consult Doctor for Proper Medicine") is eligible for none of the
\* three periods under either classifier; whatever runs have taken place, it
\* has received no reminder and carries no marker.
C17_FallbackNeverReminded ==
    \A r \in 1..Len(patients) :
        FromFallback(patients[r]) =>
            \A q \in Periods :
                /\ patient_matches_period(timing_field_lc(patients[r]), q) = "nomatch"
                /\ matches_period(GetOr(patients[r].time_to_take, Str(<<>>)), q) = "nomatch"
                /\ delivered[r][q] = 0
                /\ patients[r].last_sent[q] = 0

\* a run has passed a document created from a fallback recommendation, which
\* has a valid address
C17_Witness ==
    /\ jobs[1].pc = "loop"
    /\ jobs[1].i = 2
    /\ Len(patients) >= 1
    /\ FromFallback(patients[1])
    /\ jobs[1].snap[1] = patients[1]
    /\ ~EmailMissingOrNoAt(patients[1])

----------------------------------------------------------------------------
(* Properties of the session *)

\* C19: the dashboard is rendered only when the session holds a username; the
\* session acquires a username only through a login with the correct
\* password of that user or a password reset with a valid token for an
\* existing user; a registration leaves the session as it is and a logout
\* empties it, so a dashboard request after a logout or after a registration
\* alone is redirected to the home page.
C19_SessionOnlyByLoginOrReset ==
    [][/\ (http'.route = "dashboard" /\ http'.status = "dashboard") => session # <<>>
       /\ (http'.route = "dashboard" /\ session = <<>>) => http'.status = "redirect_home"
       /\ (session' # session /\ session' # <<>>) =>
            \/ /\ http'.route = "login"
               /\ \E i \in 1..Len(users) :
                    /\ users[i].username = session'[1]
                    /\ users[i].password = <<"$">> \o http'.password
            \/ /\ http'.route = "reset"
               /\ http'.token.signed /\ http'.token.fresh
               /\ \E i \in 1..Len(users) :
                    /\ users[i].username = session'[1]
                    /\ users[i].email = http'.token.email
       /\ (http'.route = "register" /\ http' # http) => session' = session
       /\ (http'.route = "logout" /\ http' # http) => session' = <<>>]_vars

\* with two users registered, a password reset with a valid token has put the
\* second user's name into the session
C19_Witness ==
    /\ Len(users) = 2
    /\ http.route = "reset"
    /\ http.status = "ok"
    /\ session = <<users[2].username>>
    /\ http.token.email = users[2].email

=============================================================================
